---- MODULE Spec2Model ----
(***************************************************************************)
(* The event relay of main.py: the pubsub receiver thread started by       *)
(* lifespan(), the module-level subscriber set app.subscribers, and the    *)
(* /subscribe endpoint with its per-request asyncio.Queue and              *)
(* event_generator().  The pubsub thread, the request handlers and the     *)
(* event-loop tasks run concurrently; a step of the model is one access of *)
(* the shared set or of a queue, which the interpreter executes atomically.*)
(***************************************************************************)
EXTENDS Naturals, Sequences, FiniteSets, TLC

\* Bounds of the model.
MaxSubs == 2
MaxEvents == 2

Subs == 1..MaxSubs
EventIds == 1..MaxEvents

\* Line 36: the configured keys.  Keys are the X-API-KEY headers a request may
\* carry; "None" is what APIKeyHeader(auto_error=False) yields for no header.
API_KEYS == {"key"}
Keys == {"key", "other", "None"}

VARIABLES
    api_key,            \* per request slot, the key its /subscribe request carried
    \* lifespan(), lines 41-93
    life,               \* its position
    startup_log,        \* history: the startup steps in the order they were taken
    wcf_cleanups,       \* number of calls of app.wcf.cleanup()
    \* the messaging client (app.wcf)
    wcf_receiving,      \* what wcf.is_receiving_msg() returns
    wcf_msgQ,           \* raw events waiting for wcf.get_msg()
    produced,           \* number of events the client has produced so far
    \* the registry
    subscribers,        \* app.subscribers
    \* the pubsub thread
    ppc,                \* its position
    msg,                \* {} or {the dict built at lines 55-69}
    cur,                \* {} or {the loop variable subscriber of line 72}
    it_used,            \* size of the set when the iterator of line 72 was made
    it_seen,            \* entries the iterator of line 72 has gone past
    dead_subscribers,   \* line 71
    \* one /subscribe request per element of Subs
    gen,                \* position of the request and of its event_generator
    msg_queue,          \* the asyncio.Queue of line 1113
    peer_gone,          \* requests whose peer has disconnected
    waiting,            \* generators suspended in msg_queue.get() that a put has made
                        \* ready and the event loop has not resumed yet
    \* history, read by the properties only
    trace,              \* whether prod_reg, disconnect_seen and reg_done are recorded
    enq,                \* per subscriber, everything put_nowait was applied to
    sent,               \* per subscriber, everything yielded to the transport
    fetched,            \* ids in the order pubsub fetched them
    dropped,            \* ids of the events whose dict could not be built
    prod_reg,           \* per event waiting in wcf_msgQ, the registry when it was produced
    disconnect_seen,    \* subscribers whose generator saw is_disconnected()
    reg_done,           \* per subscriber, how many fetched events had their pass
                        \* behind them when it registered
    pass_status,        \* "idle", "empty", "running", "completed", "raised"
    pass_reg,           \* the registry when the pass began
    pass_enq,           \* enq when the pass began
    pass_raw,           \* {} or {the raw event of the pass}
    pass_prod_reg,      \* the registry when the event of the pass was produced
    pass_mut,           \* the registry was changed by another thread during the pass
    pass_added,         \* a /subscribe request added to the registry during the pass
    pass_fail           \* a subscriber(msg) call raised during the pass

aux_vars == <<api_key, reg_done, waiting>>
life_vars == <<life, startup_log, wcf_cleanups>>
client_vars == <<wcf_receiving, wcf_msgQ, produced>>
pubsub_vars == <<ppc, msg, cur, it_used, it_seen, dead_subscribers>>
sub_vars == <<gen, msg_queue, peer_gone>>
pass_vars == <<pass_status, pass_reg, pass_enq, pass_raw, pass_prod_reg, pass_mut,
              pass_added, pass_fail>>
hist_vars == <<trace, enq, sent, fetched, dropped, prod_reg, disconnect_seen>>
vars == <<aux_vars, life_vars, client_vars, subscribers, pubsub_vars, sub_vars,
         hist_vars, pass_vars>>

(***************************************************************************)
(* Events.  A raw event is what wcf.get_msg() returns (a WxMsg); the       *)
(* fields below are the attributes and accessor results lines 56-68 read.  *)
(* malformed marks an event for which one of these reads raises.           *)
(***************************************************************************)
RawEvents(i) ==
    { [id |-> i, sender |-> "bob", roomid |-> "room", at |-> TRUE,
       self |-> FALSE, group |-> TRUE, malformed |-> FALSE],
      [id |-> i, sender |-> "bob", roomid |-> "", at |-> FALSE,
       self |-> FALSE, group |-> FALSE, malformed |-> TRUE] }

\* Lines 55-69: the dict built from the WxMsg.
Normalize(raw) ==
    [id |-> raw.id, sender |-> raw.sender, roomid |-> raw.roomid,
     is_at |-> raw.at, is_self |-> raw.self, is_group |-> raw.group]

\* A put that loses the item.
put_nowait_lost(q, m) == q

\* A put at the head of the queue instead of its tail.
put_nowait_front(q, m) == <<m>> \o q

\* asyncio.Queue.put_nowait on the unbounded queue of line 1113: append.
put_nowait(q, m) == Append(q, m)

\* A put that waits for room in a queue of capacity one.
put_ready_bounded(q) == Len(q) < 1

\* Line 1113 makes the queue with no maxsize, so put_nowait never finds it full.
put_ready(q) == TRUE

\* startup_log with step e recorded the first time it is taken.
Logged(e) ==
    IF \E i \in DOMAIN startup_log : startup_log[i] = e
      THEN startup_log ELSE Append(startup_log, e)

InPass == ppc \in {"for", "call"}

\* An exception that leaves the thread's function.
caught_Exception_uncaught == "stopped"

\* An Empty that leaves the thread's function.
caught_Empty_uncaught == "stopped"

\* Lines 81-83: Empty is caught, the thread sleeps and continues the loop.
caught_Empty == "sleep"

\* Lines 84-86: an exception raised inside the try is printed and the while
\* loop goes on with its condition.
caught_Exception == "while"

InitProgram ==
    /\ life = "boot"
    /\ startup_log = << >>
    /\ wcf_cleanups = 0
    /\ wcf_receiving = FALSE
    /\ wcf_msgQ = << >>
    /\ produced = 0
    /\ subscribers = {}
    /\ ppc = "unspawned"
    /\ msg = {}
    /\ cur = {}
    /\ it_used = 0
    /\ it_seen = {}
    /\ dead_subscribers = {}
    /\ gen = [s \in Subs |-> "none"]
    /\ msg_queue = [s \in Subs |-> << >>]
    /\ peer_gone = {}
    /\ waiting = {}
    /\ enq = [s \in Subs |-> << >>]
    /\ sent = [s \in Subs |-> << >>]
    /\ fetched = << >>
    /\ dropped = {}
    /\ prod_reg = << >>
    /\ disconnect_seen = {}
    /\ reg_done = [s \in Subs |-> 0]
    /\ api_key = [s \in Subs |-> "unsent"]
    /\ pass_status = "idle"
    /\ pass_reg = {}
    /\ pass_enq = [s \in Subs |-> << >>]
    /\ pass_raw = {}
    /\ pass_prod_reg = {}
    /\ pass_mut = FALSE
    /\ pass_added = FALSE
    /\ pass_fail = FALSE

Init == InitProgram /\ trace = FALSE

InitTraced == InitProgram /\ trace = TRUE

ResetPass ==
    /\ pass_status' = "idle"
    /\ pass_reg' = {}
    /\ pass_enq' = [s \in Subs |-> << >>]
    /\ pass_raw' = {}
    /\ pass_prod_reg' = {}
    /\ pass_mut' = FALSE
    /\ pass_added' = FALSE
    /\ pass_fail' = FALSE

(***************************************************************************)
(* lifespan(), lines 41-93: the startup steps before the yield, the        *)
(* shutdown step after it.  Requests are served between the two.           *)
(***************************************************************************)
\* A failed connection that is ignored.
lifespan_connect_ignored ==
    /\ life = "boot"
    /\ \/ /\ life' = "connected"
          /\ startup_log' = Append(startup_log, "connect")
       \/ /\ life' = "connected"
          /\ startup_log' = Append(startup_log, "connect_failed")
    /\ subscribers' = {}
    /\ UNCHANGED <<aux_vars, wcf_cleanups, client_vars, pubsub_vars, sub_vars,
                   hist_vars, pass_vars>>

\* Lines 43-44: Wcf(debug=True) connects to the client (and reads the
\* account's own id into wcf.self_wxid), or raises and lifespan() raises with
\* it; then the empty subscriber set.
lifespan_connect ==
    /\ life = "boot"
    /\ \/ /\ life' = "connected"
          /\ startup_log' = Append(startup_log, "connect")
       \/ /\ life' = "failed"
          /\ startup_log' = Append(startup_log, "connect_failed")
    /\ subscribers' = {}
    /\ UNCHANGED <<aux_vars, wcf_cleanups, client_vars, pubsub_vars, sub_vars,
                   hist_vars, pass_vars>>

\* Line 88: the "service started" text, or an exception that ends startup.
lifespan_send_text ==
    /\ life = "connected"
    /\ \/ /\ life' = "notified"
          /\ startup_log' = Append(startup_log, "notify")
       \/ /\ life' = "failed"
          /\ startup_log' = Append(startup_log, "notify_failed")
    /\ UNCHANGED <<aux_vars, wcf_cleanups, client_vars, subscribers, pubsub_vars,
                   sub_vars, hist_vars, pass_vars>>

\* A startup that starts the thread a second time.
lifespan_thread_start_twice ==
    /\ life = "notified"
    /\ life' = IF startup_log # Logged("spawn") THEN "notified" ELSE "spawned"
    /\ startup_log' = Append(startup_log, "spawn")
    /\ ppc' = "start"
    /\ UNCHANGED <<aux_vars, wcf_cleanups, client_vars, subscribers, msg, cur, it_used,
                   it_seen, dead_subscribers, sub_vars, hist_vars, pass_vars>>

\* Lines 89-91: the daemon thread running pubsub is started.
lifespan_thread_start ==
    /\ life = "notified"
    /\ life' = "spawned"
    /\ startup_log' = Append(startup_log, "spawn")
    /\ ppc' = "start"
    /\ UNCHANGED <<aux_vars, wcf_cleanups, client_vars, subscribers, msg, cur, it_used,
                   it_seen, dead_subscribers, sub_vars, hist_vars, pass_vars>>

\* Line 92: startup is complete and the application serves requests.
lifespan_yield ==
    /\ life = "spawned"
    /\ life' = "serving"
    /\ UNCHANGED <<aux_vars, startup_log, wcf_cleanups, client_vars, subscribers,
                   pubsub_vars, sub_vars, hist_vars, pass_vars>>

\* A shutdown that releases the client only when the thread has returned.
lifespan_shutdown_when_stopped ==
    /\ life = "serving"
    /\ ppc = "stopped"
    /\ life' = "shutdown"
    /\ wcf_cleanups' = wcf_cleanups + 1
    /\ wcf_receiving' = FALSE
    /\ UNCHANGED <<aux_vars, startup_log, wcf_msgQ, produced, subscribers, pubsub_vars,
                   sub_vars, hist_vars, pass_vars>>

\* Line 93, run once when the application shuts down: app.wcf.cleanup(), which
\* turns receiving off and closes the connection.  Nothing is said to the
\* pubsub thread.
lifespan_shutdown ==
    /\ life = "serving"
    /\ life' = "shutdown"
    /\ wcf_cleanups' = wcf_cleanups + 1
    /\ wcf_receiving' = FALSE
    /\ UNCHANGED <<aux_vars, startup_log, wcf_msgQ, produced, subscribers, pubsub_vars,
                   sub_vars, hist_vars, pass_vars>>

lifespan ==
    \/ lifespan_connect
    \/ lifespan_send_text
    \/ lifespan_thread_start
    \/ lifespan_yield
    \/ lifespan_shutdown

(***************************************************************************)
(* The pubsub thread, lines 46-86.                                         *)
(***************************************************************************)
\* A thread function that is entered again after it has returned.
pubsub_enable_again ==
    /\ ppc \in {"start", "stopped"}
    /\ IF wcf_cleanups = 0
         THEN /\ wcf_receiving' = TRUE
              /\ startup_log' = Logged("enable")
              /\ ppc' = "while"
         ELSE /\ ppc' = "stopped"
              /\ UNCHANGED <<wcf_receiving, startup_log>>
    /\ UNCHANGED <<aux_vars, life, wcf_cleanups, wcf_msgQ, produced, subscribers, msg,
                   cur, it_used, it_seen, dead_subscribers, sub_vars, hist_vars,
                   pass_vars>>

\* Line 47, the first statement of the thread.  On a client that has been
\* cleaned up the call cannot enable anything and the thread ends.
pubsub_enable ==
    /\ ppc = "start"
    /\ IF wcf_cleanups = 0
         THEN /\ wcf_receiving' = TRUE
              /\ startup_log' = Logged("enable")
              /\ ppc' = "while"
         ELSE /\ ppc' = "stopped"
              /\ UNCHANGED <<wcf_receiving, startup_log>>
    /\ UNCHANGED <<aux_vars, life, wcf_cleanups, wcf_msgQ, produced, subscribers, msg,
                   cur, it_used, it_seen, dead_subscribers, sub_vars, hist_vars,
                   pass_vars>>

\* A loop condition that never lets the thread return.
pubsub_while_forever ==
    /\ ppc = "while"
    /\ ppc' = "recheck"
    /\ msg' = {}
    /\ ResetPass
    /\ UNCHANGED <<aux_vars, life_vars, client_vars, subscribers, cur, it_used, it_seen,
                   dead_subscribers, sub_vars, hist_vars>>

\* Line 48: the loop condition; the thread returns when it is false.
pubsub_while ==
    /\ ppc = "while"
    /\ ppc' = IF wcf_receiving THEN "recheck" ELSE "stopped"
    /\ msg' = {}
    /\ ResetPass
    /\ UNCHANGED <<aux_vars, life_vars, client_vars, subscribers, cur, it_used, it_seen,
                   dead_subscribers, sub_vars, hist_vars>>

\* Lines 49-52: the flag is read a second time.
pubsub_recheck ==
    /\ ppc = "recheck"
    /\ ppc' = IF wcf_receiving THEN "fetch" ELSE "sleep"
    /\ UNCHANGED <<aux_vars, life_vars, client_vars, subscribers, msg, cur, it_used,
                   it_seen, dead_subscribers, sub_vars, hist_vars, pass_vars>>

\* Lines 51 and 82: time.sleep(1), then continue.
pubsub_wake ==
    /\ ppc = "sleep"
    /\ ppc' = "while"
    /\ UNCHANGED <<aux_vars, life_vars, client_vars, subscribers, msg, cur, it_used,
                   it_seen, dead_subscribers, sub_vars, hist_vars, pass_vars>>

\* Line 54 with nothing to fetch: get_msg raises Empty, caught at line 81.
pubsub_get_msg_empty ==
    /\ ppc = "fetch"
    /\ wcf_msgQ = << >>
    /\ ppc' = caught_Empty
    /\ pass_status' = "empty"
    /\ UNCHANGED <<aux_vars, life_vars, client_vars, subscribers, msg, cur, it_used,
                   it_seen, dead_subscribers, sub_vars, hist_vars, pass_reg, pass_enq,
                   pass_raw, pass_prod_reg, pass_mut, pass_added, pass_fail>>

\* Lines 54-72: fetch, build the dict, dead_subscribers = set(), and make the
\* iterator over app.subscribers itself.  An event whose attributes cannot be
\* read raises inside the try and is caught at line 84.
pubsub_get_msg ==
    /\ ppc = "fetch"
    /\ wcf_msgQ # << >>
    /\ LET raw == Head(wcf_msgQ) IN
        /\ wcf_msgQ' = Tail(wcf_msgQ)
        /\ fetched' = Append(fetched, raw.id)
        /\ prod_reg' = IF trace THEN Tail(prod_reg) ELSE prod_reg
        /\ IF raw.malformed
             THEN /\ ppc' = caught_Exception
                  /\ dropped' = dropped \cup {raw.id}
                  /\ UNCHANGED <<msg, it_used, it_seen, dead_subscribers, pass_vars>>
             ELSE /\ ppc' = "for"
                  /\ UNCHANGED dropped
                  /\ msg' = {Normalize(raw)}
                  /\ dead_subscribers' = {}
                  /\ it_used' = Cardinality(subscribers)
                  /\ it_seen' = {}
                  /\ pass_status' = "running"
                  /\ pass_reg' = subscribers
                  /\ pass_enq' = enq
                  /\ pass_raw' = {raw}
                  /\ pass_prod_reg' = IF trace THEN Head(prod_reg) ELSE {}
                  /\ pass_mut' = FALSE
                  /\ pass_added' = FALSE
                  /\ pass_fail' = FALSE
    /\ UNCHANGED <<aux_vars, life_vars, wcf_receiving, produced, subscribers, cur,
                   sub_vars, trace, enq, sent, disconnect_seen>>

\* Line 72, one step of the iterator over the live set.  A set whose size is
\* not the one the iterator started with raises RuntimeError, which line 84
\* catches: the rest of the pass, lines 79-80 included, is skipped.
pubsub_for ==
    /\ ppc = "for"
    /\ IF Cardinality(subscribers) # it_used
         THEN /\ ppc' = caught_Exception
              /\ pass_status' = "raised"
              /\ it_used' = 0
              /\ it_seen' = {}
              /\ dead_subscribers' = {}
              /\ UNCHANGED cur
         ELSE IF subscribers \ it_seen = {}
         THEN /\ ppc' = "purge"
              /\ it_used' = 0
              /\ it_seen' = {}
              /\ UNCHANGED <<cur, dead_subscribers, pass_status>>
         ELSE \E s \in subscribers \ it_seen :
              /\ cur' = {s}
              /\ it_seen' = it_seen \cup {s}
              /\ ppc' = "call"
              /\ UNCHANGED <<it_used, dead_subscribers, pass_status>>
    /\ UNCHANGED <<aux_vars, life_vars, client_vars, subscribers, msg, sub_vars,
                   hist_vars, pass_reg, pass_enq, pass_raw, pass_prod_reg, pass_mut,
                   pass_added, pass_fail>>

\* A generator inside `await msg_queue.get()` (line 1125) on an empty queue
\* is suspended on a future the queue holds.
suspended_in_get(s) == gen[s] = "get" /\ msg_queue[s] = << >>

\* Lines 73-78: subscriber(msg), which is msg_queue.put_nowait(msg) of line
\* 1116, run in the pubsub thread: it appends and completes the future of a
\* suspended generator, and nothing in it makes the event loop run; an
\* exception marks the subscriber dead and the loop goes on.
pubsub_call ==
    /\ ppc = "call"
    /\ \E s \in cur :
        /\ put_ready(msg_queue[s])
        /\ \E m \in msg :
           \/ /\ msg_queue' = [msg_queue EXCEPT ![s] = put_nowait(@, m)]
              /\ enq' = [enq EXCEPT ![s] = put_nowait(@, m)]
              /\ waiting' = IF suspended_in_get(s) THEN waiting \cup {s} ELSE waiting
              /\ UNCHANGED <<dead_subscribers, pass_fail>>
           \/ /\ dead_subscribers' = dead_subscribers \cup {s}
              /\ pass_fail' = TRUE
              /\ UNCHANGED <<msg_queue, enq, waiting>>
    /\ ppc' = "for"
    /\ cur' = {}
    /\ UNCHANGED <<api_key, reg_done, life_vars, client_vars, subscribers, msg, it_used, it_seen,
                   gen, peer_gone, trace, dropped, sent, fetched, prod_reg,
                   disconnect_seen, pass_status, pass_reg, pass_enq, pass_raw,
                   pass_prod_reg, pass_mut, pass_added>>

\* Lines 79-80.
pubsub_purge ==
    /\ ppc = "purge"
    /\ subscribers' = subscribers \ dead_subscribers
    /\ dead_subscribers' = {}
    /\ ppc' = "while"
    /\ pass_status' = "completed"
    /\ UNCHANGED <<aux_vars, life_vars, client_vars, msg, cur, it_used, it_seen,
                   sub_vars, hist_vars, pass_reg, pass_enq, pass_raw, pass_prod_reg,
                   pass_mut, pass_added, pass_fail>>

pubsub ==
    \/ pubsub_enable
    \/ pubsub_while
    \/ pubsub_recheck
    \/ pubsub_wake
    \/ pubsub_get_msg_empty
    \/ pubsub_get_msg
    \/ pubsub_for
    \/ pubsub_call
    \/ pubsub_purge

(***************************************************************************)
(* /subscribe, lines 1106-1135.                                            *)
(***************************************************************************)
\* Lines 101-108: the dependency of every endpoint.  TRUE is "return True",
\* FALSE is the HTTPException with status 401.
verify_token_open(k) == TRUE
verify_token(k) == k \in API_KEYS

\* A subscribe that hands the new queue what the first subscriber was sent.
subscribe_replays(s) ==
    /\ life = "serving"
    /\ gen[s] = "none"
    /\ \A t \in Subs : t < s => gen[t] # "none"
    /\ \E k \in Keys :
        /\ api_key' = [api_key EXCEPT ![s] = k]
        /\ IF verify_token(k)
             THEN /\ subscribers' = subscribers \cup {s}
                  /\ gen' = [gen EXCEPT ![s] = "unstarted"]
                  /\ msg_queue' = [msg_queue EXCEPT ![s] = enq[1]]
                  /\ enq' = [enq EXCEPT ![s] = enq[1]]
                  /\ pass_mut' = (pass_mut \/ InPass)
                  /\ pass_added' = (pass_added \/ InPass)
                  /\ \E behind \in BOOLEAN :
                      it_seen' = IF InPass /\ behind /\ it_seen # {}
                                   THEN it_seen \cup {s} ELSE it_seen
                  /\ reg_done' = IF trace
                                   THEN [reg_done EXCEPT ![s] =
                                           IF ppc \in {"for", "call", "purge"}
                                             THEN Len(fetched) - 1 ELSE Len(fetched)]
                                   ELSE reg_done
             ELSE /\ gen' = [gen EXCEPT ![s] = "rejected"]
                  /\ UNCHANGED <<subscribers, msg_queue, enq, pass_mut, pass_added,
                                 it_seen, reg_done>>
    /\ UNCHANGED <<waiting, life_vars, client_vars, ppc, msg, cur, it_used,
                   dead_subscribers, peer_gone, trace, sent, fetched, dropped, prod_reg,
                   disconnect_seen, pass_status, pass_reg, pass_enq, pass_raw,
                   pass_prod_reg, pass_fail>>

\* Lines 1106-1118 and 1135: the request's key is verified before the body
\* runs (Depends(verify_token), line 1107); a key that fails is answered 401
\* and the body never runs.  Otherwise: a new queue, its subscriber closure
\* added to the set, the response returned with the generator not yet started.
\* Where the new entry lands relative to a running iterator depends on its hash.
subscribe(s) ==
    /\ life = "serving"
    /\ gen[s] = "none"
    /\ \A t \in Subs : t < s => gen[t] # "none"
    /\ \E k \in Keys :
        /\ api_key' = [api_key EXCEPT ![s] = k]
        /\ IF verify_token(k)
             THEN /\ subscribers' = subscribers \cup {s}
                  /\ gen' = [gen EXCEPT ![s] = "unstarted"]
                  /\ pass_mut' = (pass_mut \/ InPass)
                  /\ pass_added' = (pass_added \/ InPass)
                  /\ \E behind \in BOOLEAN :
                      it_seen' = IF InPass /\ behind /\ it_seen # {}
                                   THEN it_seen \cup {s} ELSE it_seen
                  /\ reg_done' = IF trace
                                   THEN [reg_done EXCEPT ![s] =
                                           IF ppc \in {"for", "call", "purge"}
                                             THEN Len(fetched) - 1 ELSE Len(fetched)]
                                   ELSE reg_done
             ELSE /\ gen' = [gen EXCEPT ![s] = "rejected"]
                  /\ UNCHANGED <<subscribers, pass_mut, pass_added, it_seen, reg_done>>
    /\ UNCHANGED <<waiting, life_vars, client_vars, ppc, msg, cur, it_used,
                   dead_subscribers, msg_queue, peer_gone, hist_vars, pass_status,
                   pass_reg, pass_enq, pass_raw, pass_prod_reg, pass_fail>>

\* Lines 1122-1124: the disconnect check at the top of the loop.
event_generator_check(s) ==
    /\ gen[s] \in {"unstarted", "check"}
    /\ IF s \in peer_gone
         THEN /\ gen' = [gen EXCEPT ![s] = "finally"]
              /\ disconnect_seen' = IF trace THEN disconnect_seen \cup {s}
                                              ELSE disconnect_seen
         ELSE /\ gen' = [gen EXCEPT ![s] = "get"]
              /\ UNCHANGED disconnect_seen
    /\ UNCHANGED <<aux_vars, life_vars, client_vars, subscribers, pubsub_vars,
                   msg_queue, peer_gone, trace, dropped, enq, sent, fetched, prod_reg,
                   pass_vars>>

\* The event loop runs an iteration (a socket became ready, a timer fell
\* due): the generators whose future a put has completed are resumed.
event_loop_iterates ==
    /\ waiting # {}
    /\ waiting' = {}
    /\ UNCHANGED <<api_key, reg_done, life_vars, client_vars, subscribers, pubsub_vars, sub_vars,
                   hist_vars, pass_vars>>

\* A consumer that takes an item off its queue and forwards nothing.
event_generator_get_skips(s) ==
    /\ gen[s] = "get"
    /\ s \notin waiting
    /\ msg_queue[s] # << >>
    /\ msg_queue' = [msg_queue EXCEPT ![s] = Tail(@)]
    /\ gen' = [gen EXCEPT ![s] = "check"]
    /\ UNCHANGED <<aux_vars, life_vars, client_vars, subscribers, pubsub_vars,
                   peer_gone, hist_vars, pass_vars>>

\* Lines 1125-1129: await msg_queue.get() returns once the queue holds an
\* item (at once, or when a suspended generator has been resumed); the item
\* is yielded as one message, or serialising it raises and line 1130 catches.
event_generator_get(s) ==
    /\ gen[s] = "get"
    /\ s \notin waiting
    /\ msg_queue[s] # << >>
    /\ msg_queue' = [msg_queue EXCEPT ![s] = Tail(@)]
    /\ \/ /\ sent' = [sent EXCEPT ![s] = Append(@, Head(msg_queue[s]))]
          /\ gen' = [gen EXCEPT ![s] = "check"]
       \/ /\ gen' = [gen EXCEPT ![s] = "finally"]
          /\ UNCHANGED sent
    /\ UNCHANGED <<aux_vars, life_vars, client_vars, subscribers, pubsub_vars,
                   peer_gone, trace, dropped, enq, fetched, prod_reg, disconnect_seen,
                   pass_vars>>

\* The transport cancels or closes the started generator at one of its
\* suspension points (lines 1123, 1125, 1126); line 1130 does not catch it and
\* the finally clause runs.
event_generator_cancel(s) ==
    /\ gen[s] \in {"check", "get"}
    /\ s \in peer_gone
    /\ gen' = [gen EXCEPT ![s] = "finally"]
    /\ waiting' = waiting \ {s}
    /\ UNCHANGED <<api_key, reg_done, life_vars, client_vars, subscribers, pubsub_vars,
                   msg_queue, peer_gone, hist_vars, pass_vars>>

\* Lines 1132-1133.
event_generator_finally(s) ==
    /\ gen[s] = "finally"
    /\ subscribers' = subscribers \ {s}
    /\ gen' = [gen EXCEPT ![s] = "done"]
    /\ pass_mut' = (pass_mut \/ (InPass /\ s \in subscribers))
    /\ UNCHANGED <<aux_vars, life_vars, client_vars, pubsub_vars, msg_queue, peer_gone,
                   hist_vars, pass_status, pass_reg, pass_enq, pass_raw, pass_prod_reg,
                   pass_added, pass_fail>>

\* The response of line 1135 ends before the generator's first step: a
\* generator that never started runs none of its body, line 1133 included.
response_dropped(s) ==
    /\ gen[s] = "unstarted"
    /\ s \in peer_gone
    /\ gen' = [gen EXCEPT ![s] = "dropped"]
    /\ UNCHANGED <<aux_vars, life_vars, client_vars, subscribers, pubsub_vars,
                   msg_queue, peer_gone, hist_vars, pass_vars>>

\* The peer of request s goes away (what request.is_disconnected() reports).
peer_disconnect(s) ==
    /\ gen[s] \in {"unstarted", "check", "get"}
    /\ s \notin peer_gone
    /\ peer_gone' = peer_gone \cup {s}
    /\ UNCHANGED <<aux_vars, life_vars, client_vars, subscribers, pubsub_vars, gen,
                   msg_queue, hist_vars, pass_vars>>

consumer(s) ==
    \/ event_generator_check(s)
    \/ event_generator_get(s)
    \/ event_generator_finally(s)

(***************************************************************************)
(* The messaging client and the endpoints that drive it.                   *)
(***************************************************************************)
\* The client queues an inbound event while receiving is enabled.
wcf_produce ==
    /\ wcf_receiving
    /\ produced < MaxEvents
    /\ \E raw \in RawEvents(produced + 1) :
        wcf_msgQ' = Append(wcf_msgQ, raw)
    /\ produced' = produced + 1
    /\ prod_reg' = IF trace THEN Append(prod_reg, subscribers) ELSE prod_reg
    /\ UNCHANGED <<aux_vars, life_vars, wcf_receiving, subscribers, pubsub_vars,
                   sub_vars, trace, dropped, enq, sent, fetched, disconnect_seen,
                   pass_vars>>

\* An enable that switches receiving over instead of on.
enable_receiving_msg_toggle ==
    /\ life = "serving"
    /\ wcf_receiving' = ~wcf_receiving
    /\ startup_log' = Logged("enable")
    /\ UNCHANGED <<aux_vars, life, wcf_cleanups, wcf_msgQ, produced, subscribers,
                   pubsub_vars, sub_vars, hist_vars, pass_vars>>

\* Lines 949-967.
enable_receiving_msg ==
    /\ life = "serving"
    /\ wcf_receiving' = TRUE
    /\ startup_log' = Logged("enable")
    /\ UNCHANGED <<aux_vars, life, wcf_cleanups, wcf_msgQ, produced, subscribers,
                   pubsub_vars, sub_vars, hist_vars, pass_vars>>

\* Lines 970-984.
disable_receiving_msg ==
    /\ life = "serving"
    /\ wcf_receiving' = FALSE
    /\ UNCHANGED <<aux_vars, life_vars, wcf_msgQ, produced, subscribers, pubsub_vars,
                   sub_vars, hist_vars, pass_vars>>

\* Lines 1004-1022: the endpoint takes the next event off the same client queue.
get_msg ==
    /\ life = "serving"
    /\ wcf_msgQ # << >>
    /\ wcf_msgQ' = Tail(wcf_msgQ)
    /\ prod_reg' = IF trace THEN Tail(prod_reg) ELSE prod_reg
    /\ UNCHANGED <<aux_vars, life_vars, wcf_receiving, produced, subscribers,
                   pubsub_vars, sub_vars, trace, dropped, enq, sent, fetched,
                   disconnect_seen, pass_vars>>

Next ==
    \/ lifespan
    \/ pubsub
    \/ \E s \in Subs : subscribe(s)
    \/ \E s \in Subs : consumer(s)
    \/ \E s \in Subs : event_generator_cancel(s)
    \/ event_loop_iterates
    \/ \E s \in Subs : response_dropped(s)
    \/ \E s \in Subs : peer_disconnect(s)
    \/ wcf_produce
    \/ enable_receiving_msg
    \/ disable_receiving_msg
    \/ get_msg

Spec == Init /\ [][Next]_vars

\* The same program with prod_reg and disconnect_seen recorded.
TracedSpec == InitTraced /\ [][Next]_vars

\* The pubsub thread is a running OS thread: it keeps taking steps.  Nothing is
\* assumed about the consumers.
LoopFairSpec == Spec /\ WF_vars(pubsub)

\* The pubsub thread and every started event_generator keep taking the steps
\* they can take, and the transport cancels a started generator whose peer is
\* gone.
FairSpec ==
    /\ Spec
    /\ WF_vars(pubsub)
    /\ \A s \in Subs : WF_vars(consumer(s)) /\ WF_vars(event_generator_cancel(s))

(***************************************************************************)
(* Properties.                                                             *)
(***************************************************************************)
Ids(q) == [i \in DOMAIN q |-> q[i].id]

RECURSIVE IsSubseq(_, _)
IsSubseq(a, b) ==
    IF a = << >> THEN TRUE
    ELSE IF b = << >> THEN FALSE
    ELSE IF Head(a) = Head(b) THEN IsSubseq(Tail(a), Tail(b))
    ELSE IsSubseq(a, Tail(b))

Count(e, q) == Cardinality({i \in DOMAIN q : q[i].id = e})

\* The loop state a position of the pubsub thread belongs to: not yet in the
\* loop, asleep at line 51 or 82, returned, or anywhere else in the loop.
LoopState(p) ==
    IF p \in {"unspawned", "start"} THEN "INIT"
    ELSE IF p = "sleep" THEN "EMPTY-WAIT"
    ELSE IF p = "stopped" THEN "STOPPED"
    ELSE "RUNNING"

\* Once the thread has returned it stays returned and nothing is fetched or
\* put any more.
StoppedIsTerminal ==
    ppc = "stopped" =>
        /\ ppc' = "stopped"
        /\ fetched' = fetched
        /\ enq' = enq
        /\ msg_queue' \in {msg_queue} \cup
              {[msg_queue EXCEPT ![s] = Tail(@)] : s \in {u \in Subs : msg_queue[u] # << >>}}

PassEnds == ppc \in {"for", "purge"} /\ ppc' = "while"

\* C1: subscribe and unsubscribe steps interleaved with a running dispatch pass
\* never make the pass raise, never deliver its event twice to a subscriber,
\* and never leave out a subscriber that was registered when the pass began
\* (and still is).
C1_InterleavedPassIsSafe ==
    /\ pass_status # "raised"
    /\ pass_status \in {"running", "completed"} =>
          \A s \in Subs : Len(enq[s]) <= Len(pass_enq[s]) + 1
    /\ (pass_status = "completed" /\ ~pass_fail) =>
          \A s \in pass_reg \cap subscribers : Len(enq[s]) = Len(pass_enq[s]) + 1

\* C2: a pass over N >= 0 registered subscribers with no registry change by
\* another thread and no failed delivery has put exactly one entry into each
\* of the N queues, that entry carries the fetched event's fields unchanged,
\* and no other queue has been put to.
C2_PassDeliversOnceToEach ==
    (pass_status = "completed" /\ ~pass_mut /\ ~pass_fail) =>
        \A raw \in pass_raw : \A s \in Subs :
            enq[s] = IF s \in pass_reg
                       THEN Append(pass_enq[s],
                                   [id |-> raw.id, sender |-> raw.sender,
                                    roomid |-> raw.roomid, is_at |-> raw.at,
                                    is_self |-> raw.self, is_group |-> raw.group])
                       ELSE pass_enq[s]

C2_Witness ==
    /\ pass_status = "completed" /\ ~pass_mut /\ ~pass_fail
    /\ Cardinality(pass_reg) >= 2
    /\ pass_raw # {}

\* C3: a sink whose delivery failed during a pass is out of the registry once
\* that pass is over.
C3_FailedSinkIsPurged ==
    [][PassEnds => dead_subscribers \cap subscribers' = {}]_vars

\* C4: for every subscriber, the events put to its queue so far, and the
\* events waiting in its queue, are in the order in which pubsub fetched them.
C4_QueueFollowsFetchOrder ==
    \A s \in Subs :
        /\ IsSubseq(Ids(enq[s]), fetched)
        /\ IsSubseq(Ids(msg_queue[s]), fetched)

C4_Witness ==
    \E s \in Subs : Len(msg_queue[s]) >= 2 /\ Len(fetched) >= 2

\* C5: once a subscriber has left the registry, nothing is put to its queue.
C5_NoPutAfterRemoval ==
    [][\A s \in Subs :
          (gen[s] # "none" /\ s \notin subscribers) => enq'[s] = enq[s]]_vars

\* C6: a subscriber whose consumer has ended, whichever way, is not in the
\* registry.
C6_EndedConsumerUnregistered ==
    \A s \in Subs : gen[s] \in {"done", "dropped"} => s \notin subscribers

\* C7: a registered subscriber whose peer has disconnected is eventually out
\* of the registry, whether or not another event arrives.
C7_DisconnectedIsReaped ==
    \A s \in Subs : (s \in peer_gone /\ s \in subscribers) ~> (s \notin subscribers)

\* C8: once a consumer has seen the disconnect (and has run its cleanup),
\* nothing more is put to its queue and it is not in the registry.
C8_NoPutAfterDisconnectSeen ==
    [][\A s \in Subs :
          (s \in disconnect_seen /\ gen[s] = "done") =>
              (enq'[s] = enq[s] /\ s \notin subscribers')]_vars

\* C9: an event produced while S was registered is put to S's queue exactly
\* once: it leaves the client's queue only into a dispatch pass, the pass puts
\* it once to every such S still registered, and no event is put twice.
C9_EveryEventReachesEverySubscriber ==
    [][/\ (wcf_msgQ # << >> /\ wcf_msgQ' = Tail(wcf_msgQ)) =>
             (ppc' = "for" \/ Head(prod_reg) \cap subscribers = {})
       /\ PassEnds =>
             \A m \in msg : \A s \in pass_prod_reg \cap subscribers' :
                 Count(m.id, enq'[s]) = 1
       /\ \A s \in Subs : \A e \in EventIds : Count(e, enq'[s]) <= 1]_vars

\* C10: whatever the consumers do or fail to do, a dispatch pass that has
\* begun is completed and the loop reaches its next fetch (or its exit).
C10_PassCompletes ==
    (ppc \in {"for", "call", "purge"}) ~> (ppc \in {"fetch", "sleep", "stopped"})

C10_Witness ==
    /\ ppc = "call"
    /\ \E s \in cur : gen[s] = "dropped" /\ Len(msg_queue[s]) >= 1

\* C11: when the client reports receiving off and it stays off, the pubsub
\* thread returns (after at most the fetch and the pass it was in), and the
\* command endpoints can still be called once it has returned.
C11_DisabledLoopStops ==
    /\ (~wcf_receiving /\ ppc # "unspawned") ~> (wcf_receiving \/ ppc = "stopped")
    /\ []((ppc = "stopped" /\ life = "serving") =>
            (ENABLED enable_receiving_msg) /\ (ENABLED disable_receiving_msg))

C11_Witness ==
    /\ ppc = "stopped"
    /\ ~wcf_receiving
    /\ Len(fetched) >= 1

\* C12: an event whose dict cannot be built, or an exception raised by the
\* dispatch, does not end the pubsub thread: once in its loop the thread
\* returns only on a receiving flag that is off; the malformed event is put to no queue and
\* leaves the registry as it was; and a later undisturbed pass still puts its
\* event to every registered subscriber.
C12_ErrorDoesNotStopLoop ==
    [][/\ (ppc = "fetch" /\ ppc' # "fetch" /\ wcf_msgQ # << >>
             /\ Head(wcf_msgQ).malformed) =>
             /\ ppc' = "while"
             /\ subscribers' = subscribers
             /\ msg_queue' = msg_queue
             /\ enq' = enq
       /\ (ppc \in {"for", "call"} /\ ppc' # ppc) => ppc' \in {"while", "for", "call", "purge"}
       /\ (ppc \notin {"start", "stopped"} /\ ppc' = "stopped") =>
             (ppc = "while" /\ ~wcf_receiving)
       /\ (dropped' # {} /\ pass_status' = "completed" /\ ~pass_mut' /\ ~pass_fail') =>
             \A s \in pass_reg' : \E m \in msg' : enq'[s] = Append(pass_enq'[s], m)]_vars

C12_Witness ==
    /\ dropped # {}
    /\ pass_status = "completed" /\ ~pass_mut /\ ~pass_fail
    /\ pass_reg # {}
    /\ \A s \in pass_reg : Len(enq[s]) = Len(pass_enq[s]) + 1

\* C13: a fetch that finds no event changes neither the registry nor any
\* queue and sends the thread to its one-second sleep; from the sleep the
\* thread fetches again unless receiving has been turned off.
C13_EmptyFetchIsRetried ==
    /\ [][(ppc = "fetch" /\ ppc' # "fetch" /\ wcf_msgQ = << >>) =>
             /\ ppc' = "sleep"
             /\ subscribers' = subscribers
             /\ msg_queue' = msg_queue
             /\ enq' = enq]_vars
    /\ (ppc = "sleep") ~> (ppc = "fetch" \/ ~wcf_receiving)

C13_Witness ==
    /\ ppc = "sleep"
    /\ pass_status = "empty"
    /\ wcf_receiving
    /\ \E s \in subscribers : msg_queue[s] # << >>

\* C14: startup takes its steps in the order connect, enable receiving, send
\* the one readiness text, start the thread: receiving has been enabled by the
\* time the text is sent and by the time the thread is started, and the text
\* is sent once.
C14_StartupOrder ==
    /\ \A i \in DOMAIN startup_log :
          startup_log[i] \in {"notify", "spawn"} =>
              \E j \in 1..(i - 1) : startup_log[j] = "enable"
    /\ \A i \in DOMAIN startup_log :
          startup_log[i] \in {"enable", "notify", "spawn"} =>
              \E j \in 1..(i - 1) : startup_log[j] = "connect"
    /\ Cardinality({i \in DOMAIN startup_log : startup_log[i] = "notify"}) <= 1

\* C15: the pubsub thread has been told to stop before the client is
\* released, so it begins no wcf.get_msg() call once the client has been
\* cleaned up.
C15_NoFetchAfterRelease ==
    [][(wcf_cleanups > 0 /\ ppc = "fetch") => ppc' = "fetch"]_vars

\* C16: shutdown calls the client's cleanup exactly once, and it does so from
\* every position of the pubsub thread: just started, in the fetch, asleep
\* or returned.
C16_ReleasedExactlyOnce ==
    /\ wcf_cleanups = (IF life = "shutdown" THEN 1 ELSE 0)
    /\ life = "serving" => ENABLED lifespan_shutdown

C16_Witness ==
    /\ life = "shutdown"
    /\ wcf_cleanups = 1
    /\ ppc = "fetch"

\* C17: when the connection cannot be made at startup, startup has failed as
\* a whole: the thread is never started, no readiness text is sent, and no
\* subscription or command is ever accepted.
C17_FailedConnectFailsStartup ==
    (\E i \in DOMAIN startup_log : startup_log[i] = "connect_failed") =>
        /\ life = "failed"
        /\ startup_log = <<"connect_failed">>
        /\ ppc = "unspawned"
        /\ ~wcf_receiving
        /\ subscribers = {}
        /\ \A s \in Subs : gen[s] = "none" /\ ~ENABLED subscribe(s)
        /\ ~ENABLED enable_receiving_msg
        /\ ~ENABLED disable_receiving_msg
        /\ ~ENABLED get_msg
        /\ ~ENABLED lifespan

C17_Witness ==
    /\ life = "failed"
    /\ startup_log = <<"connect_failed">>

C19_UnregisterRemovesOnlyThat ==
    [][/\ \A s \in Subs :
             event_generator_finally(s) =>
                 /\ subscribers' = subscribers \ {s}
                 /\ msg_queue' = msg_queue
                 /\ enq' = enq
       /\ (PassEnds /\ ~pass_added /\ ~pass_fail) =>
             \A s \in pass_reg \cap subscribers' :
                 \E m \in msg : enq'[s] = Append(pass_enq[s], m)
       /\ \A s \in Subs :
             (gen[s] = "done" /\ pass_status = "running" /\ s \notin pass_reg) =>
                 enq'[s] = enq[s]]_vars

\* C20: between the start and the end of a pass's iteration over the
\* registry no add and no discard takes effect on it.
C20_NoMutationDuringIteration ==
    [][InPass => subscribers' = subscribers]_vars

C22_SentIsPrefixOfEnqueued ==
    \A s \in Subs :
        /\ Len(sent[s]) <= Len(enq[s])
        /\ sent[s] = SubSeq(enq[s], 1, Len(sent[s]))
        /\ gen[s] \in {"none", "unstarted", "check", "get", "dropped"} =>
              enq[s] = sent[s] \o msg_queue[s]

C22_Witness ==
    \E s \in Subs : Len(sent[s]) = 2 /\ gen[s] \in {"check", "get"}

\* C23: with the pubsub thread and the consumers scheduled fairly, the n-th
\* event put to the queue of a subscriber whose peer is connected is
\* eventually forwarded by its consumer (unless the peer goes away, the
\* consumer ends or the server shuts down first), with no other activity
\* needed to resume a consumer suspended in get().
C23_EnqueuedIsForwarded ==
    \A s \in Subs : \A n \in 1..MaxEvents :
        (Len(enq[s]) >= n /\ s \notin peer_gone) ~>
            \/ Len(sent[s]) >= n
            \/ s \in peer_gone
            \/ gen[s] \in {"finally", "done"}
            \/ life = "shutdown"

\* C24: the pubsub thread is started once, by lifespan() and by nothing else,
\* so passes do not overlap: an event is fetched only when no pass is in
\* progress, and whatever is put to a queue is the event fetched last.
C24_SingleLoopNoOverlap ==
    [][/\ Cardinality({i \in DOMAIN startup_log' : startup_log'[i] = "spawn"}) <= 1
       /\ (ppc' = "start" /\ ppc # "start") => (ppc = "unspawned" /\ life = "notified")
       /\ fetched' # fetched =>
             (ppc = "fetch" /\ pass_status # "running" /\ cur = {} /\ msg = {})
       /\ \A s \in Subs :
             enq'[s] # enq[s] =>
                 /\ fetched # << >>
                 /\ Len(enq'[s]) = Len(enq[s]) + 1
                 /\ enq'[s][Len(enq'[s])].id = fetched[Len(fetched)]]_vars

C24_Witness ==
    /\ Len(fetched) = 2
    /\ pass_status = "completed"
    /\ \E s \in Subs : Len(enq[s]) = 2

\* Where event e stands in the order of fetching.
FetchPos(e) == CHOOSE k \in DOMAIN fetched : fetched[k] = e

\* C25: a subscriber has nothing in its queue before it registers, and is
\* never put an event whose pass was over when it registered: such events,
\* those fetched while nobody was registered included, are gone.
C25_NewSubscriberStartsEmpty ==
    \A s \in Subs :
        /\ gen[s] = "none" => (enq[s] = << >> /\ msg_queue[s] = << >>)
        /\ \A i \in DOMAIN enq[s] :
              /\ \E k \in DOMAIN fetched : fetched[k] = enq[s][i].id
              /\ FetchPos(enq[s][i].id) > reg_done[s]

C25_Witness ==
    /\ dropped = {}
    /\ reg_done[1] >= 1
    /\ Len(enq[1]) >= 1
    /\ wcf_msgQ = << >>

\* C26: a subscribe request whose key is missing or not configured is
\* answered 401 and nothing else: it is not in the subscriber set, and
\* nothing was ever put to or sent from a queue of its own.
C26_BadKeyIsRejected ==
    \A s \in Subs :
        (api_key[s] # "unsent" /\ api_key[s] \notin API_KEYS) =>
            /\ gen[s] = "rejected"
            /\ s \notin subscribers
            /\ msg_queue[s] = << >>
            /\ enq[s] = << >>
            /\ sent[s] = << >>

C26_Witness ==
    /\ api_key[1] = "None"
    /\ api_key[2] = "key"
    /\ Len(fetched) = MaxEvents
    /\ Len(sent[2]) = MaxEvents

====
